---- MODULE Spec2Model ----
(***************************************************************************)
(* HollaEx MCP server: the tool registry (buildServer), the per-call      *)
(* exchange delegate (makeClient) and the HTTP adapter (createHttpApp).    *)
(* Two builds of the server are in the tree: the full catalog             *)
(* (src/unnamed/part_001) and the two-tool build (src/src/mcp-server.js). *)
(***************************************************************************)
EXTENDS Integers, Sequences, FiniteSets, TLC

\* ------------------------------------------------------------------ bounds
MaxInv == 2        \* invocation slots that may be in flight together
MaxOverrides == 1  \* fields of a valid parameter mapping replaced per request

\* ------------------------------------------------------- JavaScript values
\* A value carries its type tag; n/f hold a number (n + 1/2 when f), s a string.
Val(t, n, f, s) == [t |-> t, n |-> n, f |-> f, s |-> s]
Undefined == Val("undefined", 0, FALSE, "")
Null == Val("null", 0, FALSE, "")
Str(s) == Val("string", 0, FALSE, s)
Num(n) == Val("number", n, FALSE, "")
Frac(n) == Val("number", n, TRUE, "")
Bool(b) == Val("boolean", IF b THEN 1 ELSE 0, FALSE, "")
Obj(s) == Val("object", 0, FALSE, s)
Arr(n, elem) == Val("array", n, FALSE, elem)

\* JavaScript truthiness (the ! operator of makeClient and the handlers).
Truthy(v) ==
  CASE v.t \in {"undefined", "null"} -> FALSE
    [] v.t = "string" -> v.s # ""
    [] v.t = "number" -> v.n # 0 \/ v.f
    [] v.t = "boolean" -> v.n = 1
    [] OTHER -> TRUE

\* Template-literal conversion `${v}`.
TemplateStr(v) ==
  CASE v.t = "string" -> v.s
    [] v.t = "number" -> IF v.f THEN ToString(v.n) \o ".5" ELSE ToString(v.n)
    [] v.t = "boolean" -> IF v.n = 1 THEN "true" ELSE "false"
    [] v.t = "array" -> "[array]"
    [] v.t = "object" -> "[object Object]"
    [] OTHER -> v.t

Get(m, k) == IF k \in DOMAIN m THEN m[k] ELSE Undefined

\* --------------------------------------------------------- zod combinators
ZBase(kind) ==
  [kind |-> kind, optional |-> FALSE, positive |-> FALSE, int |-> FALSE,
   hasMax |-> FALSE, max |-> 0, enum |-> {}, hasDefault |-> FALSE,
   default |-> Undefined, nonempty |-> FALSE, nullable |-> FALSE, reject |-> {}]
ZString == ZBase("string")
ZNumber == ZBase("number")
ZBoolean == ZBase("boolean")
ZEnum(values) == [ZBase("enum") EXCEPT !.enum = values]
ZStringArray == ZBase("array")
ZStringOrNumber == ZBase("union")
ZObject == ZBase("object")
ZNullable(z) == [z EXCEPT !.nullable = TRUE]
ZRejecting(z, shapes) == [z EXCEPT !.reject = shapes]
ZOptional(z) == [z EXCEPT !.optional = TRUE]
ZPositive(z) == [z EXCEPT !.positive = TRUE]
ZInt(z) == [z EXCEPT !.int = TRUE]
ZMax(z, m) == [z EXCEPT !.hasMax = TRUE, !.max = m]
ZDefault(z, v) == [z EXCEPT !.hasDefault = TRUE, !.default = v]
ZNonempty(z) == [z EXCEPT !.nonempty = TRUE]

\* The shapes of a meta object the model distinguishes.
MetaPostOnly == "{post_only:true}"
MetaBad == "{post_only:'yes'}"

\* zod's check of one present (not undefined) value.
ZCheck(z, v) ==
  CASE z.kind = "string" -> v.t = "string"
    [] z.kind = "number" ->
         /\ v.t = "number"
         /\ z.int => ~v.f
         /\ z.positive => (v.n > 0 \/ (v.n = 0 /\ v.f))
         /\ z.hasMax => (v.n < z.max \/ (v.n = z.max /\ ~v.f))
    [] z.kind = "enum" -> v.t = "string" /\ v.s \in z.enum
    [] z.kind = "boolean" -> v.t = "boolean"
    [] z.kind = "array" ->
         /\ v.t = "array"
         /\ v.n > 0 => v.s = "string"
         /\ z.nonempty => v.n > 0
    [] z.kind = "union" -> v.t \in {"string", "number"}
    [] z.kind = "object" -> v.t = "object" /\ v.s \notin z.reject
    [] OTHER -> FALSE

ZFieldOk(z, v) ==
  CASE v = Undefined -> z.optional \/ z.hasDefault
    [] v = Null -> z.nullable
    [] OTHER -> ZCheck(z, v)

\* z.object(shape).safeParse(params).success
ZObjectOk(shape, params) ==
  \A k \in DOMAIN shape : ZFieldOk(shape[k], Get(params, k))

\* the parsed data: declared keys only, defaults filled in
ZObjectParse(shape, params) ==
  [k \in DOMAIN shape |->
     IF Get(params, k) = Undefined /\ shape[k].hasDefault
       THEN shape[k].default ELSE Get(params, k)]

\* ----------------------------------------------------- process configuration
Builds == {"part_001", "mcp-server"}
MaxLimit == 50

\* ------------------------------------------------------- the tool catalogs
ToolNamesFull ==
  {"getUserBalance", "getBalance", "placeOrder", "cancelOrder", "getKit",
   "getConstants", "getTicker", "getTickers", "getOrderbook", "getOrderbooks",
   "getTrades", "getUser", "getUserTrades", "getOrder", "getOrders",
   "cancelAllOrders", "getMiniCharts", "getQuickTradeQuote", "executeOrder"}
ToolNamesBasic == {"getUserBalance", "placeOrder"}
ToolNames(b) == IF b = "part_001" THEN ToolNamesFull ELSE ToolNamesBasic

MutatingTools == {"placeOrder", "cancelOrder", "cancelAllOrders", "executeOrder"}

\* ----------------------------------------------------------- input schemas
EmptySchema == [k \in {} |-> ZString]

\* size without .positive()
placeOrderInputSchemaLoose ==
  [symbol |-> ZString,
   side |-> ZEnum({"buy", "sell"}),
   size |-> ZNumber,
   type |-> ZEnum({"limit", "market"}),
   price |-> ZOptional(ZPositive(ZNumber)),
   stop |-> ZOptional(ZPositive(ZNumber)),
   meta |-> ZOptional(ZRejecting(ZObject, {MetaBad}))]

placeOrderInputSchema ==
  [symbol |-> ZString,
   side |-> ZEnum({"buy", "sell"}),
   size |-> ZPositive(ZNumber),
   type |-> ZEnum({"limit", "market"}),
   price |-> ZOptional(ZPositive(ZNumber)),
   stop |-> ZOptional(ZPositive(ZNumber)),
   meta |-> ZOptional(ZRejecting(ZObject, {MetaBad}))]

placeOrderInputSchemaBasic ==
  [symbol |-> ZString,
   side |-> ZEnum({"buy", "sell"}),
   size |-> ZPositive(ZNumber),
   type |-> ZDefault(ZEnum({"limit", "market"}), Str("limit")),
   price |-> ZOptional(ZPositive(ZNumber))]

getUserTradesInputSchema ==
  [symbol |-> ZOptional(ZString),
   limit |-> ZOptional(ZMax(ZPositive(ZInt(ZNumber)), MaxLimit)),
   page |-> ZOptional(ZPositive(ZInt(ZNumber))),
   orderBy |-> ZOptional(ZString),
   order |-> ZOptional(ZEnum({"asc", "desc"})),
   startDate |-> ZOptional(ZString),
   endDate |-> ZOptional(ZString),
   format |-> ZOptional(ZEnum({"all", "csv"}))]

\* limit without .max(50)
getOrdersInputSchemaNoMax ==
  [symbol |-> ZOptional(ZString),
   side |-> ZOptional(ZEnum({"buy", "sell"})),
   status |-> ZOptional(ZString),
   open |-> ZOptional(ZBoolean),
   limit |-> ZOptional(ZPositive(ZInt(ZNumber))),
   page |-> ZOptional(ZPositive(ZInt(ZNumber))),
   orderBy |-> ZOptional(ZString),
   order |-> ZOptional(ZEnum({"asc", "desc"})),
   startDate |-> ZOptional(ZString),
   endDate |-> ZOptional(ZString)]

getOrdersInputSchema ==
  [symbol |-> ZOptional(ZString),
   side |-> ZOptional(ZEnum({"buy", "sell"})),
   status |-> ZOptional(ZString),
   open |-> ZOptional(ZBoolean),
   limit |-> ZOptional(ZMax(ZPositive(ZInt(ZNumber)), MaxLimit)),
   page |-> ZOptional(ZPositive(ZInt(ZNumber))),
   orderBy |-> ZOptional(ZString),
   order |-> ZOptional(ZEnum({"asc", "desc"})),
   startDate |-> ZOptional(ZString),
   endDate |-> ZOptional(ZString)]

getMiniChartsInputSchema ==
  [assets |-> ZNonempty(ZStringArray),
   from |-> ZOptional(ZString),
   to |-> ZOptional(ZString),
   quote |-> ZOptional(ZString)]

getQuickTradeQuoteInputSchema ==
  [spending_currency |-> ZString,
   receiving_currency |-> ZString,
   spending_amount |-> ZOptional(ZStringOrNumber),
   receiving_amount |-> ZOptional(ZStringOrNumber)]

inputSchemaFull(tool) ==
  CASE tool = "placeOrder" -> placeOrderInputSchema
    [] tool \in {"cancelOrder", "getOrder"} -> [orderId |-> ZString]
    [] tool \in {"getTicker", "getOrderbook", "cancelAllOrders"} -> [symbol |-> ZString]
    [] tool = "getTrades" -> [symbol |-> ZOptional(ZString)]
    [] tool = "getUserTrades" -> getUserTradesInputSchema
    [] tool = "getOrders" -> getOrdersInputSchema
    [] tool = "getMiniCharts" -> getMiniChartsInputSchema
    [] tool = "getQuickTradeQuote" -> getQuickTradeQuoteInputSchema
    [] tool = "executeOrder" -> [token |-> ZString]
    [] OTHER -> EmptySchema

inputSchemaBasic(tool) ==
  IF tool = "placeOrder" THEN placeOrderInputSchemaBasic ELSE EmptySchema

inputSchema(b, tool) ==
  IF b = "part_001" THEN inputSchemaFull(tool) ELSE inputSchemaBasic(tool)

\* ---------------------------------------------------------- output schemas
\* A delegate result: its JavaScript shape and, for an object, its keys.
Payload(shape, fields) == [shape |-> shape, fields |-> fields]
NullPayload == Payload("null", <<>>)
UndefinedPayload == Payload("undefined", <<>>)

FeeStructureBad == "{maker:'x'}"

orderOutputShape ==
  [id |-> ZString,
   symbol |-> ZString,
   side |-> ZString,
   size |-> ZNumber,
   type |-> ZString,
   price |-> ZOptional(ZNumber),
   status |-> ZString,
   filled |-> ZNumber,
   average |-> ZOptional(ZNullable(ZNumber)),
   fee |-> ZOptional(ZNumber),
   fee_coin |-> ZOptional(ZString),
   created_at |-> ZString,
   updated_at |-> ZString,
   fee_structure |-> ZOptional(ZRejecting(ZObject, {FeeStructureBad})),
   stop |-> ZOptional(ZNullable(ZNumber)),
   meta |-> ZOptional(ZObject)]

\* every field of the order optional
orderOutputSchemaAllOptional(p) ==
  /\ p.shape = "object"
  /\ ZObjectOk([k \in DOMAIN orderOutputShape |-> ZOptional(orderOutputShape[k])],
               p.fields)

\* z.object({...}).passthrough(): unknown keys are kept and not checked
orderOutputSchema(p) ==
  p.shape = "object" /\ ZObjectOk(orderOutputShape, p.fields)

cancelOutputSchema(p) ==
  /\ p.shape = "object"
  /\ ZObjectOk([id |-> ZOptional(ZString), order_id |-> ZOptional(ZString),
                message |-> ZOptional(ZString), status |-> ZOptional(ZString)],
               p.fields)

\* z.object({ user_id }).catchall(z.number())
balanceOutputSchema(p) ==
  /\ p.shape = "object"
  /\ ZFieldOk(ZOptional(ZNumber), Get(p.fields, "user_id"))
  /\ \A k \in DOMAIN p.fields \ {"user_id"} : ZFieldOk(ZNumber, p.fields[k])

\* z.unknown()
genericOutputSchema(p) == TRUE

outputSchema(tool, p) ==
  CASE tool \in {"getUserBalance", "getBalance"} -> balanceOutputSchema(p)
    [] tool \in {"placeOrder", "getOrder"} -> orderOutputSchema(p)
    [] tool = "cancelOrder" -> cancelOutputSchema(p)
    [] OTHER -> genericOutputSchema(p)

\* ------------------------------------------------------------ thrown errors
Thrown(origin, message) == [origin |-> origin, message |-> message]
NoError == Thrown("none", "")
PriceRequiredError ==
  Thrown("handler-check", "price is required for limit orders")
MissingCredentialsError ==
  Thrown("makeClient",
         "Missing HOLLAEX_API_KEY or HOLLAEX_API_SECRET environment variables.")
OrderIdTypeError ==
  Thrown("TypeError", "Cannot read properties of undefined (reading 'id')")
UpstreamErrors ==
  {Thrown("delegate", "Insufficient balance"), Thrown("delegate", "ECONNRESET")}

\* ------------------------------------------------------------- the delegate
Call(op, args, obj) == [op |-> op, args |-> args, obj |-> obj]

\* What a handler's synchronous part ends in: a throw, or a pending delegate call.
Throw(e) == [kind |-> "throw", error |-> e, client |-> 0, call |-> Call("", <<>>, <<>>)]
Await(client, call) == [kind |-> "await", error |-> NoError, client |-> client, call |-> call]

\* only the key is checked
makeClientKeyOnly(key, secret, fresh) ==
  IF ~Truthy(key)
    THEN Throw(MissingCredentialsError)
    ELSE Await(fresh, Call("", <<>>, <<>>))

\* one module-level instance handed to every caller
makeClientShared(key, secret, fresh) ==
  IF ~Truthy(key) \/ ~Truthy(secret)
    THEN Throw(MissingCredentialsError)
    ELSE Await(1, Call("", <<>>, <<>>))

\* makeClient(): `fresh` is the identity `new hollaex(...)` gives the instance
makeClient(key, secret, fresh) ==
  IF ~Truthy(key) \/ ~Truthy(secret)
    THEN Throw(MissingCredentialsError)
    ELSE Await(fresh, Call("", <<>>, <<>>))

\* ---------------------------------------------------------- tool handlers
\* opts of placeOrder: stop when given, meta when truthy
placeOrderOpts(a) ==
  [k \in {k \in {"stop", "meta"} :
            \/ k = "stop" /\ a.stop # Undefined
            \/ k = "meta" /\ Truthy(a.meta)} |-> a[k]]

priceToSend(a) == IF a.type = Str("limit") THEN a.price ELSE Num(0)

priceToSendBasic(a) == IF a.type = Str("limit") THEN a.price ELSE Undefined

\* the price check applied to every order type
placeOrderHandlerPriceAlways(a, key, secret, fresh) ==
  IF ~Truthy(a.price)
    THEN Throw(PriceRequiredError)
    ELSE LET client == makeClient(key, secret, fresh)
             opts == placeOrderOpts(a)
         IN  IF client.kind = "throw" THEN client
             ELSE Await(client.client,
                        Call("createOrder",
                             <<a.symbol, a.side, a.size, a.type, priceToSend(a),
                               IF DOMAIN opts # {} THEN Obj("opts") ELSE Undefined>>,
                             opts))

\* the client built before the price is checked
placeOrderHandlerCredsFirst(a, key, secret, fresh) ==
  LET client == makeClient(key, secret, fresh)
      opts == placeOrderOpts(a)
  IN  IF client.kind = "throw" THEN client
      ELSE IF a.type = Str("limit") /\ ~Truthy(a.price)
        THEN Throw(PriceRequiredError)
        ELSE Await(client.client,
                   Call("createOrder",
                        <<a.symbol, a.side, a.size, a.type, priceToSend(a),
                          IF DOMAIN opts # {} THEN Obj("opts") ELSE Undefined>>,
                        opts))

\* placeOrder, up to its await (part_001)
placeOrderHandler(a, key, secret, fresh) ==
  IF a.type = Str("limit") /\ ~Truthy(a.price)
    THEN Throw(PriceRequiredError)
    ELSE LET client == makeClient(key, secret, fresh)
             opts == placeOrderOpts(a)
         IN  IF client.kind = "throw" THEN client
             ELSE Await(client.client,
                        Call("createOrder",
                             <<a.symbol, a.side, a.size, a.type, priceToSend(a),
                               IF DOMAIN opts # {} THEN Obj("opts") ELSE Undefined>>,
                             opts))

\* placeOrder, up to its await (mcp-server.js)
placeOrderHandlerBasic(a, key, secret, fresh) ==
  IF a.type = Str("limit") /\ ~Truthy(a.price)
    THEN Throw(PriceRequiredError)
    ELSE LET client == makeClient(key, secret, fresh)
         IN  IF client.kind = "throw" THEN client
             ELSE Await(client.client,
                        Call("createOrder",
                             <<a.symbol, a.side, a.size, a.type, priceToSendBasic(a)>>,
                             <<>>))

\* the one delegate operation of every other tool, with its arguments
delegateCall(tool, a) ==
  CASE tool \in {"getUserBalance", "getBalance"} -> Call("getBalance", <<>>, <<>>)
    [] tool \in {"cancelOrder", "getOrder"} -> Call(tool, <<a.orderId>>, <<>>)
    [] tool \in {"getTicker", "getOrderbook", "cancelAllOrders"} ->
         Call(tool, <<a.symbol>>, <<>>)
    [] tool = "getTrades" -> Call(tool, <<>>, [symbol |-> a.symbol])
    [] tool \in {"getUserTrades", "getOrders"} -> Call(tool, <<>>, a)
    [] tool = "getMiniCharts" ->
         Call(tool, <<a.assets>>,
              [from |-> a.from, to |-> a.to, quote |-> a.quote, assets |-> a.assets])
    [] tool = "getQuickTradeQuote" ->
         Call(tool, <<a.spending_currency, a.receiving_currency>>,
              [spending_amount |-> a.spending_amount,
               receiving_amount |-> a.receiving_amount])
    [] tool = "executeOrder" -> Call(tool, <<a.token>>, <<>>)
    [] OTHER -> Call(tool, <<>>, <<>>)

\* every handler but placeOrder, up to its await
simpleHandler(tool, a, key, secret, fresh) ==
  LET client == makeClient(key, secret, fresh)
  IN  IF client.kind = "throw" THEN client
      ELSE Await(client.client, delegateCall(tool, a))

handler(b, tool, a, key, secret, fresh) ==
  CASE tool = "placeOrder" /\ b = "part_001" -> placeOrderHandler(a, key, secret, fresh)
    [] tool = "placeOrder" /\ b # "part_001" -> placeOrderHandlerBasic(a, key, secret, fresh)
    [] OTHER -> simpleHandler(tool, a, key, secret, fresh)

\* ------------------------------------------------ after the await resolves
\* the summary copied into the structured content
formatResponseReshaped(message, structuredContent) ==
  [content |-> <<[type |-> "text", text |-> message]>>,
   structuredContent |->
     [structuredContent EXCEPT
        !.fields = [k \in DOMAIN @ \cup {"summary"} |->
                      IF k = "summary" THEN Str(message) ELSE @[k]]]]

formatResponse(message, structuredContent) ==
  [content |-> <<[type |-> "text", text |-> message]>>,
   structuredContent |-> structuredContent]
NoResult == formatResponse("", UndefinedPayload)

Return(r) == [kind |-> "return", error |-> NoError, result |-> r]
Rethrow(e) == [kind |-> "throw", error |-> e, result |-> NoResult]

successText(tool, a) ==
  CASE tool \in {"getUserBalance", "getBalance"} -> "Fetched user balances."
    [] tool = "cancelOrder" -> "Canceled order " \o TemplateStr(a.orderId)
    [] tool = "getKit" -> "Fetched kit information."
    [] tool = "getConstants" -> "Fetched constants."
    [] tool = "getTicker" -> "Fetched ticker for " \o TemplateStr(a.symbol) \o "."
    [] tool = "getTickers" -> "Fetched tickers for all symbols."
    [] tool = "getOrderbook" -> "Fetched orderbook for " \o TemplateStr(a.symbol) \o "."
    [] tool = "getOrderbooks" -> "Fetched orderbooks."
    [] tool = "getTrades" ->
         "Fetched recent trades"
           \o (IF Truthy(a.symbol) THEN " for " \o TemplateStr(a.symbol) ELSE "") \o "."
    [] tool = "getUser" -> "Fetched user profile."
    [] tool = "getUserTrades" -> "Fetched user trades."
    [] tool = "getOrder" -> "Fetched order " \o TemplateStr(a.orderId) \o "."
    [] tool = "getOrders" -> "Fetched orders."
    [] tool = "cancelAllOrders" ->
         "Canceled all orders for " \o TemplateStr(a.symbol) \o "."
    [] tool = "getMiniCharts" -> "Fetched mini charts."
    [] tool = "getQuickTradeQuote" -> "Fetched quick trade quote."
    [] tool = "executeOrder" -> "Executed order."
    [] OTHER -> ""

\* placeOrder after createOrder resolved with `order`
placeOrderResume(order) ==
  IF order.shape \in {"null", "undefined"}
    THEN Rethrow(OrderIdTypeError)
    ELSE Return(formatResponse(
                  "Placed order " \o TemplateStr(Get(order.fields, "id")), order))

resume(tool, a, payload) ==
  IF tool = "placeOrder" THEN placeOrderResume(payload)
  ELSE Return(formatResponse(successText(tool, a), payload))

\* ------------------------------------------------- the invocation protocol
\* The failure taxonomy of an error thrown inside a handler.
Taxonomy(e) ==
  CASE e.origin = "handler-check" -> "InvalidInput"
    [] e.origin = "makeClient" -> "MissingCredentials"
    [] e.origin = "delegate" -> "UpstreamError"
    [] OTHER -> "InternalError"

Response(kind, code, message, result, tools, status, body) ==
  [kind |-> kind, code |-> code, message |-> message, result |-> result,
   tools |-> tools, status |-> status, body |-> body]
NoResponse == Response("none", "", "", NoResult, {}, 0, <<>>)
Success(result) == Response("success", "", "", result, {}, 200, <<>>)
Failure(code, message) == Response("error", code, message, NoResult, {}, 200, <<>>)
Listing(tools) == Response("tools", "", "", NoResult, tools, 200, <<>>)
HttpJson(status, body) == Response("http", "", "", NoResult, {}, status, body)

\* an unknown name reported like a parameter error
dispatchUnknownAsInvalid(b, method, tool, params) ==
  CASE method = "tools/list" -> [next |-> "done", response |-> Listing(ToolNames(b)), args |-> <<>>]
    [] method = "tools/call"
         /\ (tool \notin ToolNames(b) \/ ~ZObjectOk(inputSchema(b, tool), params)) ->
         [next |-> "done",
          response |-> Failure("InvalidInput", "Invalid arguments for tool " \o tool),
          args |-> <<>>]
    [] OTHER ->
         [next |-> "handler", response |-> NoResponse,
          args |-> ZObjectParse(inputSchema(b, tool), params)]

\* registry lookup and input validation, before the handler is entered
dispatch(b, method, tool, params) ==
  CASE method = "tools/list" -> [next |-> "done", response |-> Listing(ToolNames(b)), args |-> <<>>]
    [] method = "tools/call" /\ tool \notin ToolNames(b) ->
         [next |-> "done", response |-> Failure("ToolNotFound", "Tool " \o tool \o " not found"),
          args |-> <<>>]
    [] method = "tools/call" /\ ~ZObjectOk(inputSchema(b, tool), params) ->
         [next |-> "done",
          response |-> Failure("InvalidInput", "Invalid arguments for tool " \o tool),
          args |-> <<>>]
    [] OTHER ->
         [next |-> "handler", response |-> NoResponse,
          args |-> ZObjectParse(inputSchema(b, tool), params)]

\* output validation of what the handler returned
validateOutput(tool, result) ==
  IF outputSchema(tool, result.structuredContent)
    THEN Success(result)
    ELSE Failure("InternalError", "Output validation error for tool " \o tool)

\* ------------------------------------------------------------ HTTP routing
\* a request whose JSON-RPC envelope names a method of the protocol
WellFormed(req) == req.method \in {"tools/call", "tools/list"}

\* res.headersSent: something was already written for this connection
HeadersSent(c) == c.response.kind # "none"

InternalErrorCode == -32603

\* as handlerCatch, answering with the parse-error code
handlerCatchParseError(headersSent, response) ==
  IF ~headersSent
    THEN HttpJson(500, [jsonrpc |-> "2.0",
                        error |-> [code |-> -32700,
                                   message |-> "Parse error"],
                        id |-> "null"])
    ELSE response

\* the catch block of the POST handler
handlerCatch(headersSent, response) ==
  IF ~headersSent
    THEN HttpJson(500, [jsonrpc |-> "2.0",
                        error |-> [code |-> InternalErrorCode,
                                   message |-> "Internal server error"],
                        id |-> "null"])
    ELSE response

\* res 'close': the listener, when one is registered, releases both
onClose(c) ==
  IF c.listener
    THEN [c EXCEPT !.closed = TRUE, !.transportOpen = FALSE, !.serverOpen = FALSE]
    ELSE [c EXCEPT !.closed = TRUE]

mcpPaths == {"/mcp", "/api/mcp"}
healthPaths == {"/health", "/api/mcp/health"}

\* the second health path left unregistered
getRouteOneHealthPath(path) ==
  CASE path \in mcpPaths ->
         HttpJson(200, [ok |-> TRUE, message |-> "POST MCP requests here"])
    [] path = "/health" -> HttpJson(200, [ok |-> TRUE])
    [] OTHER -> HttpJson(404, <<>>)

\* the GET routes of createHttpApp; any other path is the framework's 404
getRoute(path) ==
  CASE path \in mcpPaths ->
         HttpJson(200, [ok |-> TRUE, message |-> "POST MCP requests here"])
    [] path \in healthPaths -> HttpJson(200, [ok |-> TRUE])
    [] OTHER -> HttpJson(404, <<>>)

\* ------------------------------------------------- inputs the model draws
\* Values tried for a field, by the kind of its schema.
Candidates(z) ==
  {Undefined, Null} \cup
  CASE z.kind = "string" -> {Str("btc-usdt"), Num(1)}
    [] z.kind = "number" ->
         {Str("ten"), Num(-1), Num(0), Num(1), Frac(1), Num(MaxLimit),
          Num(MaxLimit + 1), Frac(MaxLimit)}
    [] z.kind = "enum" -> {Str(e) : e \in z.enum} \cup {Str("bogus"), Num(1)}
    [] z.kind = "boolean" -> {Bool(TRUE), Bool(FALSE), Str("yes")}
    [] z.kind = "array" ->
         {Arr(0, "string"), Arr(1, "string"), Arr(1, "number"), Str("xht")}
    [] z.kind = "union" -> {Str("1.5"), Num(1), Bool(TRUE)}
    [] OTHER -> {Obj(MetaPostOnly), Obj(MetaBad), Str("x")}

ValidSample(z) ==
  CASE z.kind = "number" -> Num(1)
    [] z.kind = "array" -> Arr(1, "string")
    [] OTHER -> Str("btc-usdt")

LimitOrderParams ==
  [symbol |-> Str("btc-usdt"), side |-> Str("buy"), size |-> Num(1),
   type |-> Str("limit"), price |-> Num(10000), stop |-> Undefined,
   meta |-> Undefined]
MarketOrderParams ==
  [LimitOrderParams EXCEPT !.type = Str("market"), !.price = Undefined]

\* Parameter mappings that satisfy the tool's schema.
BaseParams(tool) ==
  IF tool = "placeOrder" THEN {LimitOrderParams, MarketOrderParams}
  ELSE LET shape == inputSchemaFull(tool)
       IN  {[k \in DOMAIN shape |->
               IF shape[k].optional THEN Undefined ELSE ValidSample(shape[k])]}

RECURSIVE Overridden(_, _, _)
Overridden(shape, S, n) ==
  IF n = 0 THEN S
  ELSE Overridden(shape,
         S \cup UNION {UNION {{[p EXCEPT ![k] = v] : v \in Candidates(shape[k])} :
                                k \in DOMAIN shape} : p \in S},
         n - 1)

ParamSets(tool) == Overridden(inputSchemaFull(tool), BaseParams(tool), MaxOverrides)

Request(http, path, method, tool, params) ==
  [http |-> http, path |-> path, method |-> method, tool |-> tool, params |-> params]
NoRequest == Request("", "", "", "", <<>>)

UnknownTools == {"getPositions"}
GetPaths == mcpPaths \cup healthPaths \cup {"/"}

ToolCalls ==
  UNION {{Request("POST", "/mcp", "tools/call", t, p) : p \in ParamSets(t)} :
           t \in ToolNamesFull}
  \cup {Request("POST", "/mcp", "tools/call", t, <<>>) : t \in UnknownTools}
ToolLists == {Request("POST", path, "tools/list", "", <<>>) : path \in mcpPaths}
Gets == {Request("GET", path, "", "", <<>>) : path \in GetPaths}

Malformed == {Request("POST", path, "", "", <<>>) : path \in mcpPaths}

AllRequests == ToolCalls \cup ToolLists \cup Gets \cup Malformed

\* The requests of the concurrent specification: one of each kind.
CoreRequests ==
  {Request("POST", "/mcp", "tools/call", "placeOrder", LimitOrderParams),
   Request("POST", "/mcp", "tools/call", "placeOrder",
           [LimitOrderParams EXCEPT !.price = Undefined]),
   Request("POST", "/mcp", "tools/call", "getUserBalance", <<>>),
   Request("POST", "/mcp", "tools/call", "placeOrder", MarketOrderParams),
   Request("POST", "/mcp", "tools/call", "placeOrder",
           [LimitOrderParams EXCEPT !.type = Undefined, !.price = Undefined]),
   Request("POST", "/mcp", "tools/call", "cancelOrder", [orderId |-> Str("123")]),
   Request("POST", "/mcp", "tools/call", "cancelAllOrders", [symbol |-> Str("btc-usdt")]),
   Request("POST", "/mcp", "tools/call", "executeOrder", [token |-> Str("tok")]),
   Request("POST", "/mcp", "tools/call", "getOrders", [limit |-> Num(MaxLimit + 1)]),
   Request("POST", "/mcp", "tools/call", "getPositions", <<>>),
   Request("POST", "/api/mcp", "tools/list", "", <<>>),
   Request("POST", "/mcp", "", "", <<>>),
   Request("GET", "/health", "", "", <<>>),
   Request("GET", "/api/mcp/health", "", "", <<>>),
   Request("GET", "/mcp", "", "", <<>>)}

\* Results the exchange client may resolve with.
StubOrder ==
  [id |-> Str("123"), symbol |-> Str("btc-usdt"), side |-> Str("buy"),
   size |-> Num(1), type |-> Str("limit"), price |-> Num(10000),
   status |-> Str("new"), filled |-> Num(0), created_at |-> Str("..."),
   updated_at |-> Str("...")]
Without(m, k) == [x \in DOMAIN m \ {k} |-> m[x]]
With(m, k, v) == [x \in DOMAIN m \cup {k} |-> IF x = k THEN v ELSE m[x]]
WrongType(v) == IF v.t = "string" THEN Num(7) ELSE Str("7")

OrderPayloads ==
  {Payload("object", StubOrder), NullPayload, UndefinedPayload,
   Payload("object", With(StubOrder, "fee", Frac(0))),
   Payload("object", With(StubOrder, "average", Null)),
   Payload("object", With(StubOrder, "fee_structure", Obj(FeeStructureBad))),
   Payload("object", With(StubOrder, "client_ref", Str("x")))}
  \cup {Payload("object", Without(StubOrder, k)) : k \in DOMAIN StubOrder}
  \cup {Payload("object", With(StubOrder, k, WrongType(StubOrder[k]))) :
          k \in DOMAIN StubOrder}

StubBalance == [btc_balance |-> Frac(1), btc_available |-> Num(1)]
BalancePayloads ==
  {Payload("object", StubBalance), NullPayload,
   Payload("object", With(StubBalance, "user_id", Num(42))),
   Payload("object", With(StubBalance, "user_id", Str("42"))),
   Payload("object", With(StubBalance, "usdt_balance", Str("3")))}

OtherPayloads ==
  {Payload("object", [message |-> Str("ok")]), NullPayload,
   Payload("object", [id |-> Num(5)])}

AllPayloads(op) ==
  CASE op \in {"createOrder", "getOrder"} -> OrderPayloads
    [] op = "getBalance" -> BalancePayloads
    [] OTHER -> OtherPayloads

CorePayloads(op) ==
  CASE op \in {"createOrder", "getOrder"} ->
         {Payload("object", StubOrder), Payload("object", Without(StubOrder, "id"))}
    [] op = "getBalance" -> {Payload("object", StubBalance)}
    [] OTHER -> {Payload("object", [message |-> Str("ok")])}

\* -------------------------------------------------------------------- state
VARIABLES
  build,        \* which server file is deployed
  API_KEY,      \* process.env.HOLLAEX_API_KEY, read once at load
  API_SECRET,   \* process.env.HOLLAEX_API_SECRET, read once at load
  inv,          \* per connection: the request and how far its handling got
  clients,      \* exchange-client instances constructed so far
  delegateCalls \* delegate operations started so far

vars == <<build, API_KEY, API_SECRET, inv, clients, delegateCalls>>

Invocations == 1..MaxInv

Idle ==
  [pc |-> "idle", req |-> NoRequest, args |-> <<>>, ran |-> FALSE, client |-> 0,
   calls |-> <<>>, settled |-> "", payload |-> UndefinedPayload,
   result |-> NoResult, response |-> NoResponse,
   closed |-> FALSE, listener |-> FALSE, transportOpen |-> FALSE,
   serverOpen |-> FALSE]

CredentialValues == {Undefined, Str(""), Str("key")}

InitWith(creds) ==
  /\ build \in Builds
  /\ API_KEY \in creds
  /\ API_SECRET \in creds
  /\ inv = [i \in Invocations |-> Idle]
  /\ clients = 0
  /\ delegateCalls = 0

\* ------------------------------------------------------------------ actions
\* POST /mcp: the connection is accepted; buildServer(), a transport, connect,
\* and handleRequest begins to read the request
Post(i, req) ==
  /\ inv[i].pc = "idle"
  /\ req.http = "POST" /\ req.path \in mcpPaths
  /\ inv' = [inv EXCEPT ![i] =
               [@ EXCEPT !.pc = "receiving", !.req = req, !.transportOpen = TRUE,
                         !.serverOpen = TRUE]]
  /\ UNCHANGED <<build, API_KEY, API_SECRET, clients, delegateCalls>>

\* GET on any path: the connection is accepted, no server is built
GetRequest(i, req) ==
  /\ inv[i].pc = "idle"
  /\ req.http = "GET"
  /\ inv' = [inv EXCEPT ![i] = [@ EXCEPT !.pc = "receiving", !.req = req]]
  /\ UNCHANGED <<build, API_KEY, API_SECRET, clients, delegateCalls>>

\* the GET is answered by its route
Route(i) ==
  /\ inv[i].pc = "receiving" /\ inv[i].req.http = "GET"
  /\ inv' = [inv EXCEPT ![i] =
               [@ EXCEPT !.pc = "done", !.response = getRoute(inv[i].req.path)]]
  /\ UNCHANGED <<build, API_KEY, API_SECRET, clients, delegateCalls>>

\* as HandleRequest, with one server shared by all connections: connect throws
\* while another connection still holds it
HandleRequestSharedServer(i) ==
  /\ inv[i].pc = "receiving" /\ inv[i].req.http = "POST"
  /\ inv' = [inv EXCEPT ![i] =
               IF WellFormed(inv[i].req) /\ ~\E j \in Invocations \ {i} : inv[j].serverOpen
                 THEN [@ EXCEPT !.pc = "dispatching"]
                 ELSE [@ EXCEPT !.pc = "done",
                                !.response = handlerCatch(HeadersSent(inv[i]),
                                                           inv[i].response)]]
  /\ UNCHANGED <<build, API_KEY, API_SECRET, clients, delegateCalls>>

\* handleRequest has the whole request: a well-formed envelope goes on to the
\* registry; a malformed one makes it throw, and the catch block answers
HandleRequest(i) ==
  /\ inv[i].pc = "receiving" /\ inv[i].req.http = "POST"
  /\ inv' = [inv EXCEPT ![i] =
               IF WellFormed(inv[i].req)
                 THEN [@ EXCEPT !.pc = "dispatching"]
                 ELSE [@ EXCEPT !.pc = "done",
                                !.response = handlerCatch(HeadersSent(inv[i]),
                                                           inv[i].response)]]
  /\ UNCHANGED <<build, API_KEY, API_SECRET, clients, delegateCalls>>

\* the handler, resumed after handleRequest, registers its close listener
RegisterCloseListener(i) ==
  /\ inv[i].pc \in {"dispatching", "handler", "awaiting", "returned", "done"}
  /\ WellFormed(inv[i].req) /\ ~inv[i].listener
  /\ inv' = [inv EXCEPT ![i] = [@ EXCEPT !.listener = TRUE]]
  /\ UNCHANGED <<build, API_KEY, API_SECRET, clients, delegateCalls>>

\* the connection closes, after the response was flushed or because the client
\* went away; a registered listener closes the transport and the server
Close(i) ==
  /\ inv[i].pc # "idle" /\ ~inv[i].closed
  /\ inv' = [inv EXCEPT ![i] = onClose(@)]
  /\ UNCHANGED <<build, API_KEY, API_SECRET, clients, delegateCalls>>

\* the registry looks the tool up and validates the parameters
Dispatch(i) ==
  /\ inv[i].pc = "dispatching"
  /\ LET d == dispatch(build, inv[i].req.method, inv[i].req.tool, inv[i].req.params)
     IN  inv' = [inv EXCEPT ![i] =
                   [@ EXCEPT !.pc = d.next, !.args = d.args, !.response = d.response]]
  /\ UNCHANGED <<build, API_KEY, API_SECRET, clients, delegateCalls>>

\* the handler runs up to its await: it throws, or a delegate call is pending
RunHandler(i) ==
  /\ inv[i].pc = "handler"
  /\ LET h == handler(build, inv[i].req.tool, inv[i].args, API_KEY, API_SECRET,
                      clients + 1)
     IN  IF h.kind = "throw"
           THEN /\ inv' = [inv EXCEPT ![i] =
                             [@ EXCEPT !.pc = "done", !.ran = TRUE,
                                       !.response = Failure(Taxonomy(h.error),
                                                            h.error.message)]]
                /\ UNCHANGED <<clients, delegateCalls>>
           ELSE /\ inv' = [inv EXCEPT ![i] =
                             [@ EXCEPT !.pc = "awaiting", !.ran = TRUE, !.client = h.client,
                                       !.calls = Append(@, h.call)]]
                /\ clients' = clients + 1
                /\ delegateCalls' = delegateCalls + 1
  /\ UNCHANGED <<build, API_KEY, API_SECRET>>

\* the delegate call resolves and the handler runs to its return or throw
DelegateResolve(i, payload) ==
  /\ inv[i].pc = "awaiting"
  /\ LET r == resume(inv[i].req.tool, inv[i].args, payload)
     IN  inv' = [inv EXCEPT ![i] =
                   IF r.kind = "throw"
                     THEN [@ EXCEPT !.pc = "done", !.settled = "resolved",
                                    !.payload = payload,
                                    !.response = Failure(Taxonomy(r.error),
                                                         r.error.message)]
                     ELSE [@ EXCEPT !.pc = "returned", !.settled = "resolved",
                                    !.payload = payload,
                                    !.result = r.result]]
  /\ UNCHANGED <<build, API_KEY, API_SECRET, clients, delegateCalls>>

\* a rejected call started once more
DelegateRejectRetry(i, e) ==
  /\ inv[i].pc = "awaiting"
  /\ IF Len(inv[i].calls) < 2
       THEN /\ inv' = [inv EXCEPT ![i] =
                         [@ EXCEPT !.calls = Append(@, @[Len(@)])]]
            /\ delegateCalls' = delegateCalls + 1
       ELSE /\ inv' = [inv EXCEPT ![i] =
                         [@ EXCEPT !.pc = "done", !.settled = "rejected",
                                   !.response = Failure(Taxonomy(e), e.message)]]
            /\ UNCHANGED delegateCalls
  /\ UNCHANGED <<build, API_KEY, API_SECRET, clients>>

\* as DelegateReject, with nothing catching the rejection: the process ends and
\* every connection with it, none of them answered
DelegateRejectUnhandled(i, e) ==
  /\ inv[i].pc = "awaiting"
  /\ inv' = [j \in Invocations |->
               [inv[j] EXCEPT !.pc = "done",
                              !.settled = IF j = i THEN "rejected" ELSE @]]
  /\ UNCHANGED <<build, API_KEY, API_SECRET, clients, delegateCalls>>

\* the delegate call rejects: the handler lets the error through (after
\* logging it, in placeOrder and cancelOrder)
DelegateReject(i, e) ==
  /\ inv[i].pc = "awaiting"
  /\ inv' = [inv EXCEPT ![i] =
               [@ EXCEPT !.pc = "done", !.settled = "rejected",
                         !.response = Failure(Taxonomy(e), e.message)]]
  /\ UNCHANGED <<build, API_KEY, API_SECRET, clients, delegateCalls>>

\* the handler's return value is checked against the output schema
ValidateOutput(i) ==
  /\ inv[i].pc = "returned"
  /\ inv' = [inv EXCEPT ![i] =
               [@ EXCEPT !.pc = "done",
                         !.response = validateOutput(inv[i].req.tool, inv[i].result)]]
  /\ UNCHANGED <<build, API_KEY, API_SECRET, clients, delegateCalls>>

\* the operation connection i is waiting for, if any
PendingOp(i) ==
  IF inv[i].calls = <<>> THEN "" ELSE inv[i].calls[Len(inv[i].calls)].op

\* ----------------------------------------------------------- specifications
\* One invocation, every request and every delegate result of the model.
\* the requests that can arrive on a connection: none once it is taken
Arriving(i, requests) == IF inv[i].pc = "idle" THEN requests ELSE {}

Init == InitWith(CredentialValues)

Next ==
  \/ \E req \in Arriving(1, AllRequests) : Post(1, req)
  \/ \E req \in Arriving(1, AllRequests) : GetRequest(1, req)
  \/ Route(1)
  \/ HandleRequest(1)
  \/ Dispatch(1)
  \/ RunHandler(1)
  \/ \E payload \in AllPayloads(PendingOp(1)) : DelegateResolve(1, payload)
  \/ \E e \in UpstreamErrors : DelegateReject(1, e)
  \/ ValidateOutput(1)

Spec == Init /\ [][Next]_vars

\* Concurrent connections, one request of each kind.
InitHttp == InitWith({Undefined, Str("key")})

NextHttp ==
  \E i \in Invocations :
    \/ \E req \in Arriving(i, CoreRequests) : Post(i, req)
    \/ \E req \in Arriving(i, CoreRequests) : GetRequest(i, req)
    \/ Route(i)
    \/ HandleRequest(i)
    \/ Dispatch(i)
    \/ RunHandler(i)
    \/ \E payload \in CorePayloads(PendingOp(i)) : DelegateResolve(i, payload)
    \/ DelegateReject(i, Thrown("delegate", "Insufficient balance"))
    \/ ValidateOutput(i)

SpecHttp == InitHttp /\ [][NextHttp]_vars

\* connections from accept to close: a call that reaches the delegate, a
\* malformed envelope and a health probe
ConnRequests ==
  {Request("POST", "/mcp", "tools/call", "placeOrder", LimitOrderParams),
   Request("POST", "/mcp", "", "", <<>>),
   Request("GET", "/health", "", "", <<>>)}

NextConn ==
  \E i \in Invocations :
    \/ \E req \in Arriving(i, ConnRequests) : Post(i, req)
    \/ \E req \in Arriving(i, ConnRequests) : GetRequest(i, req)
    \/ Route(i)
    \/ HandleRequest(i)
    \/ RegisterCloseListener(i)
    \/ Dispatch(i)
    \/ RunHandler(i)
    \/ DelegateResolve(i, Payload("object", StubOrder))
    \/ DelegateReject(i, Thrown("delegate", "Insufficient balance"))
    \/ ValidateOutput(i)
    \/ Close(i)

\* the credentials are both configured or both missing
InitConn == InitHttp /\ API_KEY = API_SECRET

SpecConn == InitConn /\ [][NextConn]_vars

\* ------------------------------------------------------------ the claims
IsCall(i) == inv[i].req.method = "tools/call"
Registered(i) == inv[i].req.tool \in ToolNames(build)
Done(i) == inv[i].pc = "done"
NoDelegate(i) == inv[i].client = 0 /\ inv[i].calls = <<>>
Failed(i, code) == inv[i].response.kind = "error" /\ inv[i].response.code = code
Succeeded(i) == inv[i].response.kind = "success"
CredentialsPresent == Truthy(API_KEY) /\ Truthy(API_SECRET)
Present(p, k) == Get(p, k) # Undefined

\* The declared constraints, as the tool descriptions state them.
RequiredFields(b, tool) ==
  CASE tool = "placeOrder" ->
         IF b = "part_001" THEN {"symbol", "side", "size", "type"}
         ELSE {"symbol", "side", "size"}
    [] tool \in {"cancelOrder", "getOrder"} -> {"orderId"}
    [] tool \in {"getTicker", "getOrderbook", "cancelAllOrders"} -> {"symbol"}
    [] tool = "getMiniCharts" -> {"assets"}
    [] tool = "getQuickTradeQuote" -> {"spending_currency", "receiving_currency"}
    [] tool = "executeOrder" -> {"token"}
    [] OTHER -> {}

StringFields(b, tool) ==
  CASE tool \in {"placeOrder", "getTicker", "getOrderbook", "cancelAllOrders",
                 "getTrades"} -> {"symbol"}
    [] tool \in {"cancelOrder", "getOrder"} -> {"orderId"}
    [] tool = "getUserTrades" -> {"symbol", "orderBy", "startDate", "endDate"}
    [] tool = "getOrders" -> {"symbol", "status", "orderBy", "startDate", "endDate"}
    [] tool = "getMiniCharts" -> {"from", "to", "quote"}
    [] tool = "getQuickTradeQuote" -> {"spending_currency", "receiving_currency"}
    [] tool = "executeOrder" -> {"token"}
    [] OTHER -> {}

PositiveFields(b, tool) ==
  CASE tool = "placeOrder" ->
         IF b = "part_001" THEN {"size", "price", "stop"} ELSE {"size", "price"}
    [] tool \in {"getUserTrades", "getOrders"} -> {"limit", "page"}
    [] OTHER -> {}

EnumFields(b, tool) ==
  CASE tool = "placeOrder" -> {"side", "type"}
    [] tool = "getOrders" -> {"side", "order"}
    [] tool = "getUserTrades" -> {"order", "format"}
    [] OTHER -> {}

EnumValues(k) ==
  CASE k = "side" -> {"buy", "sell"}
    [] k = "type" -> {"limit", "market"}
    [] k = "order" -> {"asc", "desc"}
    [] OTHER -> {"all", "csv"}

\* the remaining typed fields, each with the type tags it admits
OtherTypes(b, tool) ==
  CASE tool = "placeOrder" /\ b = "part_001" -> [meta |-> {"object"}]
    [] tool = "getOrders" -> [open |-> {"boolean"}]
    [] tool = "getMiniCharts" -> [assets |-> {"array"}]
    [] tool = "getQuickTradeQuote" ->
         [spending_amount |-> {"string", "number"},
          receiving_amount |-> {"string", "number"}]
    [] OTHER -> <<>>

NonPositive(v) == v.t = "number" /\ (v.n < 0 \/ (v.n = 0 /\ ~v.f))
OverMaximum(v, m) == v.t = "number" /\ (v.n > m \/ (v.n = m /\ v.f))

ViolatesSchema(b, tool, p) ==
  \/ \E k \in RequiredFields(b, tool) : ~Present(p, k)
  \/ \E k \in StringFields(b, tool) : Present(p, k) /\ p[k].t # "string"
  \/ \E k \in PositiveFields(b, tool) :
       Present(p, k) /\ (p[k].t # "number" \/ NonPositive(p[k]))
  \/ \E k \in EnumFields(b, tool) :
       Present(p, k) /\ (p[k].t # "string" \/ p[k].s \notin EnumValues(k))
  \/ \E k \in DOMAIN OtherTypes(b, tool) :
       Present(p, k) /\ p[k].t \notin OtherTypes(b, tool)[k]
  \/ tool \in {"getUserTrades", "getOrders"} /\ Present(p, "limit")
       /\ OverMaximum(p.limit, MaxLimit)

\* C1: a call of a registered tool whose parameters violate the tool's input
\* schema (a required field missing, a wrong type, a value outside an enum, a
\* non-positive or over-maximum number) never enters the handler, never
\* constructs or calls the delegate, and ends in InvalidInput.
C1_InvalidInputNeverReachesHandler ==
  \A i \in Invocations :
    (IsCall(i) /\ Registered(i)
       /\ ViolatesSchema(build, inv[i].req.tool, inv[i].req.params))
    => /\ ~inv[i].ran
       /\ NoDelegate(i)
       /\ inv[i].pc \in {"receiving", "dispatching", "done"}
       /\ Done(i) => Failed(i, "InvalidInput")

C1_Witness ==
  \E i \in Invocations :
    /\ Done(i) /\ IsCall(i) /\ inv[i].req.tool = "placeOrder"
    /\ inv[i].req.params.size = Num(0)
    /\ CredentialsPresent
    /\ Failed(i, "InvalidInput") /\ NoDelegate(i) /\ delegateCalls = 0

IsPlaceOrder(i) == IsCall(i) /\ Registered(i) /\ inv[i].req.tool = "placeOrder"
PastDispatch(i) == inv[i].ran \/ inv[i].pc = "handler"
SentinelPrice == IF build = "part_001" THEN Num(0) ELSE Undefined

\* C2: placeOrder with type "limit" and no price fails with InvalidInput and
\* createOrder is never called; with type "market" and no price the price check
\* does not reject it, and once the delegate is reached createOrder has been
\* called exactly once, with the sentinel price 0 (part_001) or with no price
\* (mcp-server.js).
C2_LimitNeedsPriceMarketDoesNot ==
  \A i \in Invocations :
    (IsPlaceOrder(i) /\ PastDispatch(i) /\ inv[i].args.price = Undefined) =>
      /\ inv[i].args.type = Str("limit") =>
           /\ NoDelegate(i)
           /\ inv[i].ran => (Done(i) /\ Failed(i, "InvalidInput")
                             /\ inv[i].response.message = PriceRequiredError.message)
      /\ inv[i].args.type = Str("market") =>
           /\ ~Failed(i, "InvalidInput")
           /\ (inv[i].ran /\ CredentialsPresent) =>
                /\ Len(inv[i].calls) = 1
                /\ inv[i].calls[1].op = "createOrder"
                /\ inv[i].calls[1].args[5] = SentinelPrice
           /\ (Done(i) /\ inv[i].settled = "resolved"
                 /\ inv[i].payload = Payload("object", StubOrder)) => Succeeded(i)

C2_Witness ==
  \E i, j \in Invocations :
    /\ IsPlaceOrder(i) /\ inv[i].ran /\ inv[i].args.type = Str("limit")
    /\ inv[i].args.price = Undefined /\ Failed(i, "InvalidInput") /\ NoDelegate(i)
    /\ IsPlaceOrder(j) /\ inv[j].ran /\ inv[j].args.type = Str("market")
    /\ inv[j].args.price = Undefined /\ Succeeded(j) /\ Len(inv[j].calls) = 1
    /\ inv[j].calls[1].args[5] = SentinelPrice

\* C3 (as stated): whenever a handler runs with the key or the secret absent,
\* the invocation fails with MissingCredentials and no delegate is constructed
\* or called.
C3_AsStated ==
  \A i \in Invocations :
    (inv[i].ran /\ ~CredentialsPresent) =>
      Failed(i, "MissingCredentials") /\ NoDelegate(i)

LimitWithoutPrice(i) ==
  /\ IsPlaceOrder(i) /\ inv[i].ran
  /\ inv[i].args.type = Str("limit") /\ ~Truthy(inv[i].args.price)

\* C3 (amended): whenever a handler runs with the key or the secret absent, the
\* invocation fails without constructing or calling a delegate; the failure is
\* MissingCredentials, except for a placeOrder limit order without a price,
\* which fails with the price-required error first.
C3_NoDelegateWithoutCredentials ==
  \A i \in Invocations :
    (inv[i].ran /\ ~CredentialsPresent) =>
      /\ Done(i) /\ NoDelegate(i) /\ clients = 0 /\ delegateCalls = 0
      /\ IF LimitWithoutPrice(i)
           THEN /\ Failed(i, "InvalidInput")
                /\ inv[i].response.message = PriceRequiredError.message
           ELSE /\ Failed(i, "MissingCredentials")
                /\ inv[i].response.message = MissingCredentialsError.message

C3_Witness ==
  \E i \in Invocations :
    /\ inv[i].ran /\ Truthy(API_KEY) /\ ~Truthy(API_SECRET)
    /\ inv[i].req.tool = "cancelAllOrders"
    /\ Failed(i, "MissingCredentials") /\ NoDelegate(i)

\* C4: a GET on /health or /api/mcp/health is answered 200 {ok: true}, and a
\* tool listing with the catalog, whatever the credentials and whatever the
\* other connections are doing; neither enters a handler or touches a delegate.
C4_LivenessAlwaysOk ==
  \A i \in Invocations :
    /\ (inv[i].req.http = "GET"
          /\ inv[i].req.path \in {"/health", "/api/mcp/health"}) =>
         /\ inv[i].pc \in {"receiving", "done"} /\ ~inv[i].ran /\ NoDelegate(i)
         /\ ~inv[i].serverOpen
         /\ Done(i) =>
              /\ inv[i].response.kind = "http" /\ inv[i].response.status = 200
              /\ DOMAIN inv[i].response.body = {"ok"}
              /\ inv[i].response.body.ok = TRUE
    /\ (inv[i].req.method = "tools/list" /\ inv[i].pc # "idle") =>
         /\ ~inv[i].ran /\ NoDelegate(i)
         /\ inv[i].pc \in {"receiving", "dispatching", "done"}
         /\ Done(i) => (inv[i].response.kind = "tools"
                        /\ inv[i].response.tools = ToolNames(build))

C4_Witness ==
  \E i, j \in Invocations :
    /\ ~CredentialsPresent
    /\ inv[i].req.http = "GET" /\ inv[i].req.path = "/api/mcp/health"
    /\ Done(i) /\ inv[i].response.status = 200
    /\ IsCall(j) /\ inv[j].pc = "handler"

\* C5: a call naming a tool that is not in the catalog ends in ToolNotFound
\* without entering a handler or touching a delegate, and its code and message
\* differ from those of an InvalidInput failure of a known tool.
C5_UnknownToolNotFound ==
  /\ \A i \in Invocations :
       (IsCall(i) /\ ~Registered(i)) =>
         /\ ~inv[i].ran /\ NoDelegate(i)
         /\ inv[i].pc \in {"receiving", "dispatching", "done"}
         /\ Done(i) => Failed(i, "ToolNotFound")
  /\ \A i, j \in Invocations :
       (IsCall(i) /\ ~Registered(i) /\ Done(i)
          /\ IsCall(j) /\ Registered(j) /\ Done(j) /\ ~inv[j].ran) =>
         /\ inv[i].response.code # inv[j].response.code
         /\ inv[i].response.message # inv[j].response.message

C5_Witness ==
  \E i, j \in Invocations :
    /\ IsCall(i) /\ inv[i].req.tool = "getPositions" /\ Failed(i, "ToolNotFound")
    /\ IsCall(j) /\ Registered(j) /\ Failed(j, "InvalidInput") /\ ~inv[j].ran

MutatingOp(tool) == IF tool = "placeOrder" THEN "createOrder" ELSE tool

RECURSIVE CallsOf(_)
CallsOf(n) == IF n = 0 THEN 0 ELSE Len(inv[n].calls) + CallsOf(n - 1)

\* C6: no invocation starts more than one delegate operation, whether that
\* operation resolves or rejects; a mutating tool's one operation is the
\* matching one; over all invocations the operations started never exceed the
\* invocations received.
C6_MutatingToolsNeverRetried ==
  /\ \A i \in Invocations :
       /\ Len(inv[i].calls) <= 1
       /\ (inv[i].calls # <<>> /\ inv[i].req.tool \in MutatingTools) =>
            inv[i].calls[1].op = MutatingOp(inv[i].req.tool)
  /\ delegateCalls = CallsOf(MaxInv)
  /\ delegateCalls <= Cardinality({i \in Invocations : IsCall(i)})

C6_Witness ==
  \E i, j \in Invocations :
    /\ inv[i].req.tool = "placeOrder" /\ Done(i) /\ inv[i].settled = "rejected"
    /\ Failed(i, "UpstreamError") /\ Len(inv[i].calls) = 1
    /\ inv[j].req.tool = "cancelAllOrders" /\ Succeeded(j) /\ Len(inv[j].calls) = 1
    /\ delegateCalls = 2

IsListing(i) ==
  /\ build = "part_001" /\ IsCall(i)
  /\ inv[i].req.tool \in {"getOrders", "getUserTrades"}
  /\ inv[i].req.params.limit.t = "number"

OnlyLimitGiven(p) == \A k \in DOMAIN p \ {"limit"} : p[k] = Undefined

\* C7: getOrders and getUserTrades reject a limit above 50 at the schema, with
\* no delegate call, and accept an integer limit from 1 to 50, which reaches
\* the delegate unchanged.
C7_LimitUpToFifty ==
  \A i \in Invocations :
    IsListing(i) =>
      LET limit == inv[i].req.params.limit
      IN  /\ (limit.n > 50 \/ (limit.n = 50 /\ limit.f)) =>
               /\ ~inv[i].ran /\ NoDelegate(i)
               /\ Done(i) => Failed(i, "InvalidInput")
          /\ (limit.n \in 1..50 /\ ~limit.f /\ OnlyLimitGiven(inv[i].req.params)) =>
               /\ ~Failed(i, "InvalidInput")
               /\ Done(i) => inv[i].ran
               /\ (inv[i].ran /\ CredentialsPresent) =>
                    /\ Len(inv[i].calls) = 1
                    /\ inv[i].calls[1].op = inv[i].req.tool
                    /\ inv[i].calls[1].obj.limit = limit

C7_Witness ==
  \E i \in Invocations :
    /\ IsListing(i) /\ inv[i].req.tool = "getOrders"
    /\ inv[i].req.params.limit = Num(50)
    /\ Succeeded(i) /\ inv[i].calls[1].obj.limit = Num(50)

SummaryText(i) == inv[i].response.result.content[1].text

\* C8: a successful placeOrder answers with the text "Placed order <id>", <id>
\* being the id of the order the delegate returned, and with that order,
\* unmodified, as structured content; a successful getUserBalance answers with
\* exactly the mapping the delegate returned.
C8_PayloadPassedThrough ==
  \A i \in Invocations :
    (Succeeded(i) /\ inv[i].req.tool \in {"placeOrder", "getUserBalance"}) =>
      /\ inv[i].settled = "resolved"
      /\ inv[i].response.result.structuredContent = inv[i].payload
      /\ Len(inv[i].response.result.content) = 1
      /\ inv[i].req.tool = "placeOrder" =>
           SummaryText(i) = "Placed order " \o inv[i].payload.fields.id.s
      /\ (inv[i].req.tool = "placeOrder"
            /\ inv[i].payload = Payload("object", StubOrder)) =>
           SummaryText(i) = "Placed order 123"

C8_Witness ==
  \E i \in Invocations :
    /\ Succeeded(i) /\ inv[i].req.tool = "placeOrder"
    /\ inv[i].req.params = LimitOrderParams
    /\ inv[i].payload = Payload("object", StubOrder)
    /\ SummaryText(i) = "Placed order 123"
    /\ inv[i].response.result.structuredContent.fields = StubOrder

HasOrderShape(p) ==
  /\ p.shape = "object"
  /\ \A k \in {"id", "symbol", "side", "type", "status", "created_at", "updated_at"} :
       k \in DOMAIN p.fields /\ p.fields[k].t = "string"
  /\ \A k \in {"size", "filled"} :
       k \in DOMAIN p.fields /\ p.fields[k].t = "number"

\* C9: the structured content of a successful placeOrder has string id, symbol,
\* side, type, status, created_at and updated_at and numeric size and filled; a
\* delegate result without that shape is never answered as a success.
C9_SuccessSatisfiesOrderSchema ==
  \A i \in Invocations :
    IsPlaceOrder(i) =>
      /\ Succeeded(i) => HasOrderShape(inv[i].response.result.structuredContent)
      /\ (inv[i].settled = "resolved" /\ ~HasOrderShape(inv[i].payload)) =>
           ~Succeeded(i)

C9_Witness ==
  \E i \in Invocations :
    /\ IsPlaceOrder(i) /\ Succeeded(i)
    /\ inv[i].payload = Payload("object", With(StubOrder, "average", Null))
    /\ HasOrderShape(inv[i].response.result.structuredContent)

\* C10: no two invocations hold the same delegate instance; every invocation
\* that reached its delegate constructed one of its own.
C10_DelegatesNeverShared ==
  /\ \A i, j \in Invocations :
       (i # j /\ inv[i].client # 0 /\ inv[j].client # 0) =>
         inv[i].client # inv[j].client
  /\ \A i \in Invocations : inv[i].calls # <<>> => inv[i].client # 0
  /\ clients = Cardinality({inv[i].client : i \in Invocations} \ {0})

C10_Witness ==
  \E i, j \in Invocations :
    /\ i # j /\ inv[i].pc = "awaiting" /\ inv[j].pc = "awaiting"
    /\ inv[i].client # 0 /\ inv[j].client # 0 /\ inv[i].client # inv[j].client

\* the connection state of the specification, read off a connection
ConnState(i) ==
  CASE inv[i].closed -> "Closed"
    [] inv[i].pc = "idle" -> "Idle"
    [] inv[i].pc = "receiving" -> "Receiving"
    [] inv[i].pc = "done" -> "Responding"
    [] OTHER -> "Dispatching"

\* the position of a state in Idle, Receiving, Dispatching, Responding, Closed
Rank(state) ==
  CASE state = "Idle" -> 1
    [] state = "Receiving" -> 2
    [] state = "Dispatching" -> 3
    [] state = "Responding" -> 4
    [] state = "Closed" -> 5

\* the registry is never reached: a GET route or a malformed envelope
SkipsRegistry(i) == inv[i].req.http = "GET" \/ ~WellFormed(inv[i].req)

\* two answered connections with the same request and the same delegate
\* outcome have the same response
SameOutcome ==
  \A i, j \in Invocations :
    (/\ Done(i) /\ Done(j)
     /\ inv[i].req = inv[j].req
     /\ inv[i].settled = inv[j].settled
     /\ inv[i].payload = inv[j].payload) => inv[i].response = inv[j].response

\* a step of one connection leaves every other connection as it was
OneConnectionPerStep ==
  \A i, j \in Invocations : (i # j /\ inv[i]' # inv[i]) => inv[j]' = inv[j]

\* C11 as stated: every change of a connection's state is to the next state of
\* Idle, Receiving, Dispatching, Responding, Closed, and outcomes are independent
C11_AsStated ==
  [][/\ \A i \in Invocations :
          \/ ConnState(i)' = ConnState(i)
          \/ Rank(ConnState(i)') = Rank(ConnState(i)) + 1
      /\ OneConnectionPerStep
      /\ SameOutcome']_vars

\* C11: a connection only moves forward in the order Idle, Receiving,
\* Dispatching, Responding, Closed, one state at a time except that it may close
\* from any state after Idle and that a request which never reaches the registry
\* (GET route, malformed envelope) goes from Receiving to Responding; a step of
\* one connection changes no other, and equal requests with equal delegate
\* outcomes get equal responses whatever was interleaved with them
C11_ForwardOnlyAndIndependent ==
  [][/\ \A i \in Invocations :
          \/ ConnState(i)' = ConnState(i)
          \/ Rank(ConnState(i)') = Rank(ConnState(i)) + 1
          \/ ConnState(i) # "Idle" /\ ConnState(i)' = "Closed"
          \/ /\ SkipsRegistry(i)
             /\ ConnState(i) = "Receiving" /\ ConnState(i)' = "Responding"
      /\ OneConnectionPerStep
      /\ SameOutcome']_vars

C11_Witness ==
  \E i, j \in Invocations :
    /\ i # j /\ inv[i].req = inv[j].req /\ IsPlaceOrder(i)
    /\ inv[i].closed /\ Succeeded(i) /\ ~inv[i].transportOpen
    /\ inv[j].closed /\ Succeeded(j) /\ inv[j].transportOpen

\* the POST handler has nothing left to do for this connection
HandlingOver(i) ==
  /\ inv[i].req.http = "POST" /\ Done(i)
  /\ inv[i].listener \/ ~WellFormed(inv[i].req)

Released(i) == ~inv[i].transportOpen /\ ~inv[i].serverOpen

\* C12: once a connection has closed and its handling is over, the transport
\* and the server built for the request have been closed
C12_ReleasedOnceClosed ==
  \A i \in Invocations : (inv[i].closed /\ HandlingOver(i)) => Released(i)

\* a connection that closed after the catch block answered: nothing closes its
\* transport and server
C12_Witness ==
  \E i \in Invocations :
    /\ inv[i].closed /\ HandlingOver(i) /\ ~WellFormed(inv[i].req)
    /\ inv[i].response.kind = "http" /\ inv[i].response.status = 500
    /\ ~Released(i)

\* why an answered request must have failed, read off the request, the
\* credentials and the delegate's outcome ("" when none of these applies)
FailureOf(i) ==
  CASE inv[i].req.http # "POST" -> ""
    [] ~WellFormed(inv[i].req) -> "InternalError"
    [] ~IsCall(i) -> ""
    [] ~Registered(i) -> "ToolNotFound"
    [] ViolatesSchema(build, inv[i].req.tool, inv[i].req.params) -> "InvalidInput"
    [] LimitWithoutPrice(i) -> "InvalidInput"
    [] inv[i].ran /\ ~CredentialsPresent -> "MissingCredentials"
    [] inv[i].settled = "rejected" -> "UpstreamError"
    [] OTHER -> ""

\* the protocol-level error of the POST handler's catch block
IsInternalServerError(i) ==
  /\ inv[i].response.kind = "http" /\ inv[i].response.status = 500
  /\ inv[i].response.body.error.code = InternalErrorCode

ErrorResponse(i, code) ==
  IF ~WellFormed(inv[i].req) THEN IsInternalServerError(i) ELSE Failed(i, code)

FailuresAnswered ==
  \A i \in Invocations :
    (Done(i) /\ inv[i].req.http = "POST") =>
      /\ FailureOf(i) # "" => ErrorResponse(i, FailureOf(i))
      /\ (IsCall(i) /\ FailureOf(i) = "") =>
           /\ Succeeded(i) \/ Failed(i, "InternalError")
           /\ Succeeded(i) =>
                inv[i].response = validateOutput(inv[i].req.tool, inv[i].result)

\* C13: every invocation that fails (invalid input, missing credentials,
\* unknown tool, a rejected delegate call, an internal error) is answered with
\* the error of its cause, never with a success and never with nothing; a step
\* of one invocation changes no other, and the others are answered with their
\* own results
C13_FailuresAnsweredAndConfined ==
  [][OneConnectionPerStep /\ FailuresAnswered']_vars

C13_Witness ==
  \E i, j \in Invocations :
    /\ inv[i].req = inv[j].req
    /\ Done(i) /\ inv[i].settled = "rejected" /\ Failed(i, "UpstreamError")
    /\ Done(j) /\ inv[j].settled = "resolved" /\ Succeeded(j)

IsMalformed(i) == inv[i].req.http = "POST" /\ ~WellFormed(inv[i].req)

\* C14: a POST whose JSON-RPC envelope is malformed is answered with the
\* protocol-level error of code -32603 (HTTP 500, jsonrpc 2.0, id null), and
\* no tool handler runs and no delegate is built or called for it
C14_MalformedEnvelopeInternalError ==
  \A i \in Invocations :
    IsMalformed(i) =>
      /\ inv[i].pc \in {"receiving", "done"}
      /\ ~inv[i].ran /\ NoDelegate(i) /\ inv[i].args = <<>>
      /\ Done(i) =>
           /\ IsInternalServerError(i)
           /\ inv[i].response.body.error.code = -32603
           /\ inv[i].response.body.jsonrpc = "2.0"
           /\ inv[i].response.body.id = "null"

C14_Witness ==
  \E i \in Invocations :
    /\ IsMalformed(i) /\ inv[i].req.path = "/api/mcp" /\ CredentialsPresent
    /\ Done(i) /\ IsInternalServerError(i) /\ delegateCalls = 0

\* the handler ended in one of its two checks
FailedInChecks(i) ==
  Done(i) /\ (Failed(i, "InvalidInput") \/ Failed(i, "MissingCredentials"))

\* C15: in placeOrder the price check comes first, the credential check second
\* and createOrder last: a limit order without a price fails with the
\* price-required error whatever the credentials are; any other order fails
\* with the missing-credentials error when they are absent; a handler that
\* failed in a check has built no client and called nothing; createOrder is
\* called only after both checks passed, and for a market order it gets the
\* sentinel price whatever price the caller gave
C15_PriceCheckThenCredentialsThenCreateOrder ==
  \A i \in Invocations :
    (IsPlaceOrder(i) /\ inv[i].ran) =>
      /\ LimitWithoutPrice(i) =>
           /\ Done(i) /\ Failed(i, "InvalidInput")
           /\ inv[i].response.message = "price is required for limit orders"
      /\ (~LimitWithoutPrice(i) /\ ~CredentialsPresent) =>
           /\ Done(i) /\ Failed(i, "MissingCredentials")
           /\ inv[i].response.message = MissingCredentialsError.message
      /\ FailedInChecks(i) => (NoDelegate(i) /\ clients = 0 /\ delegateCalls = 0)
      /\ inv[i].calls # <<>> =>
           /\ ~LimitWithoutPrice(i) /\ CredentialsPresent
           /\ Len(inv[i].calls) = 1 /\ inv[i].calls[1].op = "createOrder"
           /\ inv[i].calls[1].args[5] =
                IF inv[i].args.type = Str("limit") THEN inv[i].args.price
                ELSE SentinelPrice

C15_Witness ==
  \E i \in Invocations :
    /\ IsPlaceOrder(i) /\ LimitWithoutPrice(i) /\ ~CredentialsPresent
    /\ inv[i].req.params.type = Str("limit")
    /\ Done(i) /\ Failed(i, "InvalidInput") /\ clients = 0

====
